---------------------------- MODULE Spec2Model ----------------------------
(***************************************************************************)
(* A model of the solana-vue composables: reactive wrappers that resolve   *)
(* an account reference, look a wallet feature up and return a callable    *)
(* (or a signer object) that forwards to the wallet.                       *)
(*                                                                         *)
(* JavaScript objects are functions from the names of their own keys to    *)
(* values, so that object spread, rest destructuring and `'k' in o` are    *)
(* what they are in the source.  JavaScript scalars that can meet in one   *)
(* place (null, undefined, bigint, number, string, a Ref object) are       *)
(* tagged records.                                                         *)
(***************************************************************************)
EXTENDS Integers, Sequences, FiniteSets, TLC

VARIABLES
    kind,        \* the composable the component set up
    accountRef,  \* the account (or handle) ref: NULL or a UI account / wallet
    chainIsRef,  \* whether the chain argument was passed as a Ref
    chainValue,  \* the chain string (the Ref's current value when a Ref)
    cache,       \* per computed(): [valid, value] of its last evaluation
    held,        \* what the application last read from the composable
    readError,   \* the error the last read of the composable raised, or NoError
    readAt,      \* the account and chain the refs held when `held` was read
    op,          \* the call in progress or last settled on a held value
    walletsRef,  \* useWallets().wallets: the list of UI wallets
    solanaWallets, \* the computed of useSolanaWallets: [valid, value]
    signing,     \* the signing ref of useSolanaTransaction
    calls        \* the signTransaction calls of useSolanaTransaction, by caller

vars ==
    <<kind, accountRef, chainIsRef, chainValue, cache, held, readError, readAt, op,
      walletsRef, solanaWallets, signing, calls>>

\* The state of useSolanaWallets and of useSolanaTransaction.
walletVars == <<walletsRef, solanaWallets>>
transactionVars == <<signing, calls>>

---------------------------------------------------------------------------
(* JavaScript values *)

NULL == [js |-> "null"]
UNDEFINED == [js |-> "undefined"]
Str(s) == [js |-> "string", v |-> s]
BigIntOf(n) == [js |-> "bigint", v |-> n]
Num(n) == [js |-> "number", v |-> n]
RefObject == [js |-> "ref"]

\* x != null
NotNullish(x) == x # NULL /\ x # UNDEFINED

\* Number(x) of a bigint
NumberOf(x) == Num(x.v)

\* o?.k
Prop(o, k) == IF NotNullish(o) /\ k \in DOMAIN o THEN o[k] ELSE UNDEFINED

\* { ...f, ...g }
Spread(f, g) == [k \in DOMAIN f \cup DOMAIN g |-> IF k \in DOMAIN g THEN g[k] ELSE f[k]]

\* const { ks, ...rest } = f
Rest(f, ks) == [k \in DOMAIN f \ ks |-> f[k]]

EmptyObject == [k \in {} |-> NULL]

Ok(v) == [ok |-> TRUE, value |-> v]
Throw(e) == [ok |-> FALSE, error |-> e]

NoError == [code |-> "none"]

---------------------------------------------------------------------------
(* The wallet-standard world the composables are given *)

SolanaSignTransaction == "solana:signTransaction"
SolanaSignAndSendTransaction == "solana:signAndSendTransaction"
SolanaSignMessage == "solana:signMessage"
SolanaSignIn == "solana:signIn"

Devnet == Str("solana:devnet")
Mainnet == Str("solana:mainnet")
Chains == {Devnet, Mainnet}

\* UI wallet accounts: A supports both chains, B only devnet.
AccountA == [address |-> "addrA", chains |-> {Devnet, Mainnet}, walletName |-> "W"]
AccountB == [address |-> "addrB", chains |-> {Devnet}, walletName |-> "W"]
Accounts == {AccountA, AccountB}

\* A UI wallet handle: it has no address key.
WalletW == [name |-> "W", chains |-> {Devnet, Mainnet}]
Wallets == {WalletW}

Addresses == {a.address : a \in Accounts}

\* getWalletAccountForUiWalletAccount_DO_NOT_USE_OR_YOU_WILL_BE_FIRED(account)
StandardAccountOf(account) ==
    [address |-> account.address, chains |-> account.chains, standard |-> TRUE]

\* getWalletForHandle_DO_NOT_USE_OR_YOU_WILL_BE_FIRED(handle)
WalletForHandle(handle) ==
    [name |-> IF "address" \in DOMAIN handle THEN handle.walletName ELSE handle.name,
     standard |-> TRUE]

\* getOrCreateUiWalletAccountForStandardWalletAccount_DO_NOT_USE_OR_YOU_WILL_BE_FIRED(wallet, account)
UiAccountFor(wallet, account) ==
    [address |-> account.address, chains |-> account.chains, walletName |-> wallet.name]

\* getWalletAccountFeature(account, name) / getWalletFeature(handle, name):
\* the feature object of the wallet behind the handle.  Every account and
\* wallet of the model implements every feature.
FeatureOf(handle, name) ==
    [feature |-> name,
     wallet |-> IF "address" \in DOMAIN handle THEN handle.walletName ELSE handle.name]

\* address(s) of @solana/kit: the same string, branded.
address(s) == s

ChainUnsupportedCode == "WALLET_STANDARD_ERROR__FEATURES__WALLET_ACCOUNT_CHAIN_UNSUPPORTED"

ChainUnsupported(account, chainId, featureName) ==
    [code |-> ChainUnsupportedCode,
     address |-> account.address, chain |-> chainId, featureName |-> featureName]

---------------------------------------------------------------------------
(* The composables.  Each returns computed(() => ...): its getter is an       *)
(* operator over the current refs, giving Ok(value) or Throw(error).          *)

UseSignTransaction == "useSignTransaction"
UseSignAndSendTransaction == "useSignAndSendTransaction"
UseSignMessage == "useSignMessage"
UseSignIn == "useSignIn"
UseTransactionPartialSigner == "useWalletAccountTransactionPartialSigner"
UseTransactionSigner == "useWalletAccountTransactionSigner"
UseTransactionSendingSigner == "useWalletAccountTransactionSendingSigner"
UseMessagePartialSigner == "useWalletAccountMessagePartialSigner"
UseMessageModifyingSigner == "useWalletAccountMessageModifyingSigner"
UsePartialSigner == "useWalletAccountPartialSigner"
UseModifyingSigner == "useWalletAccountModifyingSigner"
UseSigner == "useWalletAccountSigner"

LeafComputeds ==
    {UseSignTransaction, UseSignAndSendTransaction, UseSignMessage, UseSignIn,
     UseTransactionSendingSigner}
MidComputeds ==
    {UseTransactionPartialSigner, UseTransactionSigner, UseMessagePartialSigner,
     UseMessageModifyingSigner}
CombinedComputeds == {UsePartialSigner, UseModifyingSigner, UseSigner}
Computeds == LeafComputeds \cup MidComputeds \cup CombinedComputeds

\* The four composables whose value is a callable; the others give signer objects.
CallableKinds == {UseSignTransaction, UseSignAndSendTransaction, UseSignMessage, UseSignIn}
SignerKinds == Computeds \ CallableKinds

\* The composables that take a chain argument.
ChainScoped ==
    {UseSignTransaction, UseSignAndSendTransaction, UseTransactionPartialSigner,
     UseTransactionSigner, UseTransactionSendingSigner, UsePartialSigner,
     UseModifyingSigner, UseSigner}

\* The computed a signer composable creates through useSignTransaction(accountRef, chain)
\* or useSignMessage(accountRef).
Inner(c) ==
    CASE c = UseTransactionPartialSigner -> UseSignTransaction
      [] c = UseTransactionSigner -> UseSignTransaction
      [] c = UseMessagePartialSigner -> UseSignMessage
      [] c = UseMessageModifyingSigner -> UseSignMessage

\* useWalletAccountTransactionModifyingSigner and useWalletAccountMessageSigner:
\* the composables of these names give a TransactionModifyingSigner and a
\* MessageModifyingSigner, as useWalletAccountTransactionSigner and
\* useWalletAccountMessageModifyingSigner do, and are modelled by them.
UseTransactionModifyingSigner == UseTransactionSigner
UseMessageSigner == UseMessageModifyingSigner

\* The two signer composables a combined signer composable sets up.
TransactionChild(c) ==
    CASE c = UsePartialSigner -> UseTransactionPartialSigner
      [] c = UseModifyingSigner -> UseTransactionModifyingSigner
      [] c = UseSigner -> UseTransactionSendingSigner

MessageChild(c) ==
    CASE c = UsePartialSigner -> UseMessagePartialSigner
      [] c = UseModifyingSigner -> UseMessageModifyingSigner
      [] c = UseSigner -> UseMessageSigner

\* The composables that are given the chain as a Ref too: useSignTransaction and
\* useSignAndSendTransaction unwrap one (chain as Ref<string>), and
\* useWalletAccountSigner hands its chain: Ref<string> | string on.
TakesChainRef ==
    {UseSignTransaction, UseSignAndSendTransaction, UseTransactionSendingSigner, UseSigner}

\* chainRef.value in useSignTransaction / useSignAndSendTransaction: the string,
\* whether the argument was a string or a Ref.
ChainRefValue == chainValue

\* The chain argument itself, as useWalletAccountTransactionSendingSigner keeps it.
ChainArgument == IF chainIsRef THEN RefObject ELSE chainValue

\* The getter without its chain check.
GetSignTransactionUnchecked ==
    LET account == accountRef IN
    IF account = NULL THEN Ok(NULL)
    ELSE Ok([fn |-> UseSignTransaction,
             feature |-> FeatureOf(account, SolanaSignTransaction),
             standardAccount |-> StandardAccountOf(account),
             chainId |-> ChainRefValue])

GetSignTransaction ==
    LET account == accountRef IN
    IF account = NULL THEN Ok(NULL)
    ELSE LET chainId == ChainRefValue IN
         IF chainId \notin account.chains
         THEN Throw(ChainUnsupported(account, chainId, SolanaSignTransaction))
         ELSE Ok([fn |-> UseSignTransaction,
                  feature |-> FeatureOf(account, SolanaSignTransaction),
                  standardAccount |-> StandardAccountOf(account),
                  chainId |-> chainId])

GetSignAndSendTransaction ==
    LET account == accountRef IN
    IF account = NULL THEN Ok(NULL)
    ELSE LET chainId == ChainRefValue IN
         IF chainId \notin account.chains
         THEN Throw(ChainUnsupported(account, chainId, SolanaSignAndSendTransaction))
         ELSE Ok([fn |-> UseSignAndSendTransaction,
                  feature |-> FeatureOf(account, SolanaSignAndSendTransaction),
                  standardAccount |-> StandardAccountOf(account),
                  chainId |-> chainId])

GetSignMessage ==
    LET account == accountRef IN
    IF account = NULL THEN Ok(NULL)
    ELSE Ok([fn |-> UseSignMessage,
             feature |-> FeatureOf(account, SolanaSignMessage),
             standardAccount |-> StandardAccountOf(account)])

\* 'address' in handle && typeof handle.address === 'string' selects the account
\* feature lookup; both lookups give the wallet's signIn feature.
GetSignIn ==
    LET handle == accountRef IN
    IF handle = NULL THEN Ok(NULL)
    ELSE Ok([fn |-> UseSignIn,
             feature |-> FeatureOf(handle, SolanaSignIn),
             handle |-> handle,
             wallet |-> WalletForHandle(handle)])

GetTransactionSendingSigner ==
    LET uiAccount == accountRef IN
    IF uiAccount = NULL THEN Ok(NULL)
    ELSE LET chainId == ChainArgument IN
         Ok([address |-> address(uiAccount.address),
             signAndSendTransactions |->
                 [fn |-> "signAndSendTransactions",
                  feature |-> FeatureOf(uiAccount, SolanaSignAndSendTransaction),
                  standardAccount |-> StandardAccountOf(uiAccount),
                  chainId |-> chainId]])

LeafGetter(c) ==
    CASE c = UseSignTransaction -> GetSignTransaction
      [] c = UseSignAndSendTransaction -> GetSignAndSendTransaction
      [] c = UseSignMessage -> GetSignMessage
      [] c = UseSignIn -> GetSignIn
      [] c = UseTransactionSendingSigner -> GetTransactionSendingSigner

\* A computed that never evaluates its getter again.
CachedAlways(c, getter) == Ok(cache[c].value)

\* computed.value: the cached value while the cache is valid, else the getter's.
Cached(c, getter) == IF cache[c].valid THEN Ok(cache[c].value) ELSE getter

LeafValue(c) == Cached(c, LeafGetter(c))

\* The four signer composables over useSignTransaction / useSignMessage: null
\* without an account or without the inner callable, else { address, method }.
\* The method closes over `account`; it reads the inner computed when called.
SignerOver(c, method) ==
    LET account == accountRef IN
    IF account = NULL THEN Ok(NULL)
    ELSE LET inner == LeafValue(Inner(c)) IN
         IF ~inner.ok THEN inner
         ELSE IF inner.value = NULL THEN Ok(NULL)
         ELSE Ok(Spread([address |-> address(account.address)],
                        [m \in {method} |-> [fn |-> method, account |-> account]]))

GetTransactionPartialSigner == SignerOver(UseTransactionPartialSigner, "signTransactions")
GetTransactionSigner == SignerOver(UseTransactionSigner, "modifyAndSignTransactions")
GetMessagePartialSigner == SignerOver(UseMessagePartialSigner, "signMessages")
GetMessageModifyingSigner == SignerOver(UseMessageModifyingSigner, "modifyAndSignMessages")

MidGetter(c) ==
    CASE c = UseTransactionPartialSigner -> GetTransactionPartialSigner
      [] c = UseTransactionSigner -> GetTransactionSigner
      [] c = UseMessagePartialSigner -> GetMessagePartialSigner
      [] c = UseMessageModifyingSigner -> GetMessageModifyingSigner

SignerValue(c) ==
    IF c \in LeafComputeds THEN LeafValue(c) ELSE Cached(c, MidGetter(c))

\* A combined signer that leaves the transaction signer's method out.
CombinedGetterMessageOnly(c) ==
    LET txSigner == SignerValue(TransactionChild(c)) IN
    IF ~txSigner.ok THEN txSigner
    ELSE LET msgSigner == SignerValue(MessageChild(c)) IN
         IF ~msgSigner.ok THEN msgSigner
         ELSE IF txSigner.value = NULL \/ msgSigner.value = NULL THEN Ok(NULL)
         ELSE Ok(Spread(msgSigner.value, [address |-> txSigner.value.address]))

\* The three combined signers: { ...txSigner, ...msgSigner, address: txSigner.address }
CombinedGetter(c) ==
    LET txSigner == SignerValue(TransactionChild(c)) IN
    IF ~txSigner.ok THEN txSigner
    ELSE LET msgSigner == SignerValue(MessageChild(c)) IN
         IF ~msgSigner.ok THEN msgSigner
         ELSE IF txSigner.value = NULL \/ msgSigner.value = NULL THEN Ok(NULL)
         ELSE Ok(Spread(Spread(txSigner.value, msgSigner.value),
                        [address |-> txSigner.value.address]))

\* c.value, for any computed of the model, at this moment.
Value(c) ==
    IF c \in CombinedComputeds THEN Cached(c, CombinedGetter(c)) ELSE SignerValue(c)

\* The computeds whose getter runs to its end when c.value is read now.
LeafRuns(c) == IF ~cache[c].valid /\ LeafValue(c).ok THEN {c} ELSE {}

SignerRuns(c) ==
    IF c \in LeafComputeds THEN LeafRuns(c)
    ELSE IF cache[c].valid THEN {}
    ELSE (IF SignerValue(c).ok THEN {c} ELSE {})
         \cup (IF accountRef # NULL THEN LeafRuns(Inner(c)) ELSE {})

Runs(c) ==
    IF c \notin CombinedComputeds THEN SignerRuns(c)
    ELSE IF cache[c].valid THEN {}
    ELSE (IF Value(c).ok THEN {c} ELSE {})
         \cup SignerRuns(TransactionChild(c))
         \cup (IF SignerValue(TransactionChild(c)).ok
               THEN SignerRuns(MessageChild(c)) ELSE {})

\* The caches after c.value was read.
AfterRead(c) ==
    [d \in Computeds |->
        IF d \in Runs(c) THEN [valid |-> TRUE, value |-> Value(d).value] ELSE cache[d]]

\* The computeds that depend on the chain Ref through chainRef.value.
TracksChain ==
    {UseSignTransaction, UseSignAndSendTransaction, UseTransactionPartialSigner,
     UseTransactionSigner, UsePartialSigner, UseModifyingSigner}

Dirty == [valid |-> FALSE, value |-> NULL]

\* A ref that no computed tracks: an assignment leaves every cache as it is.
InvalidateNone(deps) == cache

\* A ref assignment marks every computed that depends on the ref dirty; a dirty
\* computed's old value is never read again.
Invalidate(deps) ==
    [d \in Computeds |-> IF d \in deps THEN Dirty ELSE cache[d]]

---------------------------------------------------------------------------
(* The component: it assigns the refs and reads the composable *)

NoOutcome == [status |-> "none"]
Resolved(v) == [status |-> "resolved", value |-> v]
Rejected(e) == [status |-> "rejected", error |-> e]

Idle ==
    [phase |-> "idle", name |-> "none", callee |-> NULL, via |-> NULL, at |-> NULL,
     input |-> EmptyObject, walletCalls |-> <<>>, walletResults |-> <<>>,
     outcome |-> NoOutcome]

\* The callers of useSolanaTransaction's signTransaction, and the state of one
\* that has not called.
CallIds == {"first", "second"}
NotCalled == [phase |-> "none"]
NoCalls == [id \in CallIds |-> NotCalled]

\* The values the account ref can hold: accounts, and for useSignIn wallets too.
Handles == IF kind = UseSignIn THEN Accounts \cup Wallets ELSE Accounts

InitOf(kinds) ==
    /\ kind \in kinds
    /\ accountRef \in {NULL} \cup Handles
    /\ chainIsRef \in (IF kind \in TakesChainRef THEN BOOLEAN ELSE {FALSE})
    /\ chainValue \in (IF kind \in ChainScoped THEN Chains ELSE {Devnet})
    /\ cache = [c \in Computeds |-> Dirty]
    /\ held = NULL
    /\ readError = NoError
    /\ readAt = NULL
    /\ op = Idle
    /\ walletsRef = <<>>
    /\ solanaWallets = Dirty
    /\ signing = FALSE
    /\ calls = NoCalls

\* accountRef.value = a
SetAccount(a) ==
    /\ a # accountRef
    /\ accountRef' = a
    /\ cache' = Invalidate(Computeds)
    /\ UNCHANGED <<kind, chainIsRef, chainValue, held, readError, readAt, op>>
    /\ UNCHANGED <<walletVars, transactionVars>>

\* chainRef.value = c
SetChain(c) ==
    /\ chainIsRef
    /\ c # chainValue
    /\ chainValue' = c
    /\ cache' = Invalidate(TracksChain)
    /\ UNCHANGED <<kind, accountRef, chainIsRef, held, readError, readAt, op>>
    /\ UNCHANGED <<walletVars, transactionVars>>

\* const value = composable.value
ReadValue ==
    /\ LET r == Value(kind) IN
        IF r.ok
        THEN /\ held' = r.value
             /\ readError' = NoError
             /\ readAt' = [account |-> accountRef, chain |-> chainValue]
        ELSE /\ readError' = r.error
             /\ UNCHANGED <<held, readAt>>
    /\ cache' = AfterRead(kind)
    /\ UNCHANGED <<kind, accountRef, chainIsRef, chainValue, op>>
    /\ UNCHANGED <<walletVars, transactionVars>>

---------------------------------------------------------------------------
(* Transactions, messages and what a wallet can answer *)

MaxSlot == 1

Sig(signer, payload) == [by |-> signer, over |-> payload]

\* Transactions of @solana/kit: message bytes and a signature per required signer.
TxForA == [messageBytes |-> <<1>>, signatures |-> [a \in {"addrA"} |-> NULL]]
TxForBoth ==
    [messageBytes |-> <<2>>, signatures |-> [a \in Addresses |-> NULL],
     lifetimeConstraint |-> [blockhash |-> 2]]
Transactions == {TxForA, TxForBoth}

\* getTransactionCodec() / getTransactionEncoder(): the wire bytes of a transaction.
Encode(tx) == [wire |-> tx]
Decode(bytes) == bytes.wire

\* What a wallet may do to the bytes it is asked to sign.
Tampered(bytes) == <<0>> \o bytes

SignedBy(tx, signer) ==
    [tx EXCEPT !.signatures = Spread(@, [a \in {signer} |-> Sig(signer, tx.messageBytes)])]

\* The outputs one wallet call can produce for its input.  A wallet signs with
\* the account it is handed; it may leave the bytes alone or change them, and
\* signTransaction may give the transaction back without this account's signature.
WalletOutputs(call) ==
    LET in == call.input IN
    CASE call.feature.feature = SolanaSignTransaction ->
            LET tx == Decode(in.transaction)
                changed == [tx EXCEPT !.messageBytes = Tampered(@)]
            IN  {[signedTransaction |-> Encode(SignedBy(tx, in.account.address))],
                 [signedTransaction |-> Encode(tx)],
                 [signedTransaction |-> Encode(SignedBy(changed, in.account.address))]}
      [] call.feature.feature = SolanaSignAndSendTransaction ->
            {[signature |-> Sig(in.account.address, Decode(in.transaction).messageBytes)]}
      [] call.feature.feature = SolanaSignMessage ->
            {[signedMessage |-> m, signature |-> Sig(in.account.address, m),
              signatureType |-> "ed25519"] : m \in {in.message, Tampered(in.message)}}
      [] call.feature.feature = SolanaSignIn ->
            {[account |-> StandardAccountOf(a), signedMessage |-> <<9>>,
              signature |-> Sig(a.address, <<9>>), signatureType |-> "ed25519"] :
                a \in {b \in Accounts : "address" \in DOMAIN in => b.address = in.address}}

ExtraFirst(call) == CHOOSE o \in WalletOutputs(call) : TRUE

\* A wallet answers with one output per input; it may append one more.
WalletResults(call) ==
    {<<o>> : o \in WalletOutputs(call)}
    \cup {<<o, p>> : o \in {ExtraFirst(call)}, p \in WalletOutputs(call) \ {ExtraFirst(call)}}

WalletError == [code |-> "wallet rejected"]

Slots == {BigIntOf(n) : n \in 0..MaxSlot}

\* The option objects a caller passes: none, empty, a null or bigint
\* minContextSlot, and one with a further option beside it.
OptionObjects ==
    {EmptyObject, [minContextSlot |-> NULL]}
    \cup {[minContextSlot |-> s] : s \in Slots}
    \cup {[minContextSlot |-> BigIntOf(MaxSlot), skipPreflight |-> TRUE]}

\* Inputs of the useSignTransaction / useSignAndSendTransaction callables.
TransactionInputs ==
    {[transaction |-> Encode(tx)] : tx \in Transactions}
    \cup {[transaction |-> Encode(tx), options |-> o] : tx \in Transactions, o \in OptionObjects}

Messages == {<<7>>, <<7, 8>>}
MessageInputs == {[message |-> m] : m \in Messages}

\* Inputs of the useSignIn callable: none, without and with an address.
SignInInputs ==
    {UNDEFINED, [requestId |-> "r"]}
    \cup {[requestId |-> "r", address |-> a] : a \in Addresses}

---------------------------------------------------------------------------
(* The callables of useSignTransaction, useSignAndSendTransaction,            *)
(* useSignMessage and useSignIn.  A call runs up to its await of the wallet    *)
(* feature; the wallet's answer runs the rest.                                 *)

IsCallableOf(v, c) == v # NULL /\ "fn" \in DOMAIN v /\ v.fn = c

\* Truthy(x): `x ? ... : ...` instead of `x != null`; 0n is falsy.
Truthy(x) == NotNullish(x) /\ x # BigIntOf(0)

\* The options spread guarded by truthiness instead of `!= null`.
InputWithAccountAndChainTruthy(callee, input) ==
    LET options == Prop(input, "options")
        rest == Rest(input, {"options"})
        minContextSlot == Prop(options, "minContextSlot")
    IN  Spread(Spread(rest, [account |-> callee.standardAccount, chain |-> callee.chainId]),
               IF Truthy(minContextSlot)
               THEN [options |-> [minContextSlot |-> NumberOf(minContextSlot)]]
               ELSE EmptyObject)

\* inputWithAccountAndChain of useSignTransaction / useSignAndSendTransaction
InputWithAccountAndChain(callee, input) ==
    LET options == Prop(input, "options")
        rest == Rest(input, {"options"})
        minContextSlot == Prop(options, "minContextSlot")
    IN  Spread(Spread(rest, [account |-> callee.standardAccount, chain |-> callee.chainId]),
               IF NotNullish(minContextSlot)
               THEN [options |-> [minContextSlot |-> NumberOf(minContextSlot)]]
               ELSE EmptyObject)

\* inputWithAccount of useSignMessage
InputWithAccount(callee, input) ==
    Spread(input, [account |-> callee.standardAccount])

\* The spread with the caller's input last, so that its address wins.
InputWithAddressInputLast(callee, input) ==
    Spread(IF "address" \in DOMAIN callee.handle
           THEN [address |-> callee.handle.address]
           ELSE EmptyObject,
           IF input = UNDEFINED THEN EmptyObject ELSE input)

\* inputWithAddress of useSignIn
InputWithAddress(callee, input) ==
    Spread(IF input = UNDEFINED THEN EmptyObject ELSE input,
           IF "address" \in DOMAIN callee.handle
           THEN [address |-> callee.handle.address]
           ELSE EmptyObject)

\* What a callable hands to its wallet feature.
Forwarded(callee, input) ==
    CASE callee.fn = UseSignTransaction -> InputWithAccountAndChain(callee, input)
      [] callee.fn = UseSignAndSendTransaction -> InputWithAccountAndChain(callee, input)
      [] callee.fn = UseSignMessage -> InputWithAccount(callee, input)
      [] callee.fn = UseSignIn -> InputWithAddress(callee, input)

\* results[results.length - 1] instead of results[0]
LastResult(results) == results[Len(results)]

\* The first result as the wallet gave it, signatureType included.
FirstResultAsIs(results) == results[1]

\* What a callable makes of the wallet's results.
SignTransactionResult(results) == results[1]
SignAndSendTransactionResult(results) == results[1]
SignMessageResult(results) == Rest(results[1], {"signatureType"})
\* A result that keeps the wallet's standard account.
SignInResultStandardAccount(callee, results) == Rest(results[1], {"signatureType"})

SignInResult(callee, results) ==
    LET result == results[1] IN
    Spread(Rest(result, {"account", "signatureType"}),
           [account |-> UiAccountFor(callee.wallet, result.account)])

CallableResult(callee, results) ==
    CASE callee.fn = UseSignTransaction -> SignTransactionResult(results)
      [] callee.fn = UseSignAndSendTransaction -> SignAndSendTransactionResult(results)
      [] callee.fn = UseSignMessage -> SignMessageResult(results)
      [] callee.fn = UseSignIn -> SignInResult(callee, results)

---------------------------------------------------------------------------
(* The signer methods *)

MaxBatch == 2

SignTransactions == "signTransactions"
ModifyAndSignTransactions == "modifyAndSignTransactions"
SignAndSendTransactions == "signAndSendTransactions"
SignMessages == "signMessages"
ModifyAndSignMessages == "modifyAndSignMessages"

TransactionMethods == {SignTransactions, ModifyAndSignTransactions, SignAndSendTransactions}
MessageMethods == {SignMessages, ModifyAndSignMessages}
Methods == TransactionMethods \cup MessageMethods

\* The computed a method reads when called: signTransaction.value / signMessage.value.
\* signAndSendTransactions reads none: its closure holds the feature.
MethodInner(m) ==
    CASE m = SignTransactions -> UseSignTransaction
      [] m = ModifyAndSignTransactions -> UseSignTransaction
      [] m = SignMessages -> UseSignMessage
      [] m = ModifyAndSignMessages -> UseSignMessage

MultisignUnimplemented == [code |-> "SOLANA_ERROR__SIGNER__WALLET_MULTISIGN_UNIMPLEMENTED"]
AbortError == [code |-> "AbortError"]
NotAFunction == [code |-> "TypeError: not a function"]
SignatureNotFound(a) == [code |-> "Signature not found", address |-> a]

LiveSignal == [aborted |-> FALSE]
AbortedSignal == [aborted |-> TRUE]

\* The config objects a caller passes: none, a live or aborted signal, a slot.
Configs ==
    {UNDEFINED, [abortSignal |-> LiveSignal], [abortSignal |-> AbortedSignal],
     [minContextSlot |-> BigIntOf(MaxSlot)]}

\* Signable messages: content and the signatures already on it.
SignableMessages ==
    {[content |-> <<7>>, signatures |-> EmptyObject],
     [content |-> <<7>>, signatures |-> [a \in {"addrA"} |-> Sig("addrA", <<7>>)]],
     [content |-> <<7>>, signatures |-> [a \in {"addrB"} |-> Sig("addrB", <<7>>)]]}

\* Batches of up to MaxBatch items; beyond one item the code looks at the
\* length alone, and the batch repeats one item.
BatchesOf(items) ==
    {<<>>} \cup {<<x>> : x \in items}
    \cup {[i \in 1..n |-> CHOOSE x \in items : TRUE] : n \in 2..MaxBatch}

\* config = {} / config?.abortSignal
ConfigObject(config) == IF config = UNDEFINED THEN EmptyObject ELSE config

\* abortSignal?.throwIfAborted() throws
ThrowsIfAborted(config) ==
    LET abortSignal == Prop(config, "abortSignal") IN
    NotNullish(abortSignal) /\ abortSignal.aborted

\* A guard whose length test is off by one.
SingleItemGuardOffByOne(items, config) ==
    IF ThrowsIfAborted(config) THEN Throw(AbortError)
    ELSE IF Len(items) > 2 THEN Throw(MultisignUnimplemented)
    ELSE IF Len(items) = 0 THEN Ok(<<>>)
    ELSE Ok(NULL)

\* A guard without the early return for an empty batch.
SingleItemGuardNoEmpty(items, config) ==
    IF ThrowsIfAborted(config) THEN Throw(AbortError)
    ELSE IF Len(items) > 1 THEN Throw(MultisignUnimplemented)
    ELSE IF Len(items) = 0 THEN Throw(NotAFunction)
    ELSE Ok(NULL)

\* The head of every signer method: abortSignal?.throwIfAborted(), then the
\* length tests.  Throw(e) rejects, Ok(<<>>) returns the empty batch, Ok(NULL)
\* goes on to sign the single item.
SingleItemGuard(items, config) ==
    IF ThrowsIfAborted(config) THEN Throw(AbortError)
    ELSE IF Len(items) > 1 THEN Throw(MultisignUnimplemented)
    ELSE IF Len(items) = 0 THEN Ok(<<>>)
    ELSE Ok(NULL)

\* inputWithOptions of signTransactions / modifyAndSignTransactions, input of
\* signMessages / modifyAndSignMessages: what the method hands to the callable.
MethodInput(m, item, config) ==
    IF m \in MessageMethods THEN [message |-> item.content]
    ELSE LET options == Rest(ConfigObject(config), {"abortSignal"}) IN
         Spread(options, [transaction |-> Encode(item)])

\* inputsWithChainAndAccount of signAndSendTransactions
InputsWithChainAndAccount(method, item, config) ==
    LET options == Rest(ConfigObject(config), {"abortSignal"})
        minContextSlot == Prop(options, "minContextSlot")
    IN  Spread([account |-> method.standardAccount, chain |-> method.chainId,
                transaction |-> Encode(item)],
               IF NotNullish(minContextSlot)
               THEN [options |-> [minContextSlot |-> NumberOf(minContextSlot)]]
               ELSE EmptyObject)

\* getCompiledTransactionMessageDecoder().decode(bytes).lifetimeToken
LifetimeToken(messageBytes) == messageBytes[Len(messageBytes)]

\* getTransactionLifetimeConstraintFromCompiledTransactionMessage
LifetimeConstraintOf(messageBytes) == [blockhash |-> LifetimeToken(messageBytes)]

\* A result that hands back the signed transaction's whole signature map.
SignTransactionsResultWholeMap(method, signed) ==
    Resolved(<<Decode(signed.signedTransaction).signatures>>)

\* signTransactions after the await
SignTransactionsResult(method, signed) ==
    LET decodedSignedTransaction == Decode(signed.signedTransaction)
        signerAddress == address(method.account.address)
        signature == Prop(decodedSignedTransaction.signatures, signerAddress)
    IN  IF ~NotNullish(signature) THEN Rejected(SignatureNotFound(method.account.address))
        ELSE Resolved(<<[a \in {signerAddress} |-> signature]>>)

\* modifyAndSignTransactions after the await
ModifyAndSignTransactionsResult(transaction, signed) ==
    LET decodedSignedTransaction == Decode(signed.signedTransaction)
        existingLifetime == Prop(transaction, "lifetimeConstraint")
        keepsLifetime ==
            /\ NotNullish(existingLifetime)
            /\ \/ decodedSignedTransaction.messageBytes = transaction.messageBytes
               \/ LifetimeToken(decodedSignedTransaction.messageBytes)
                      = existingLifetime.blockhash
    IN  Resolved(<<Spread(decodedSignedTransaction,
                   [lifetimeConstraint |->
                       IF keepsLifetime THEN existingLifetime
                       ELSE LifetimeConstraintOf(decodedSignedTransaction.messageBytes)])>>)

\* signAndSendTransactions after the await
SignAndSendTransactionsResult(results) == Resolved(<<results[1].signature>>)

\* signMessages after the await
SignMessagesResult(method, signed) ==
    LET signerAddress == address(method.account.address) IN
    Resolved(<<[a \in {signerAddress} |-> signed.signature]>>)

\* A result that always starts a new signature map.
ModifyAndSignMessagesResultFreshMap(method, message, signed) ==
    Resolved(<<[content |-> signed.signedMessage,
                signatures |-> [a \in {method.account.address} |-> signed.signature]]>>)

\* modifyAndSignMessages after the await
ModifyAndSignMessagesResult(method, message, signed) ==
    LET originalMessage == message.content
        originalSignatureMap == message.signatures
        messageWasModified == originalMessage # signed.signedMessage
        originalSignature == Prop(originalSignatureMap, method.account.address)
        signatureIsNew == ~(originalSignature # UNDEFINED /\ originalSignature = signed.signature)
        nextSignatureMap ==
            IF messageWasModified
            THEN [a \in {method.account.address} |-> signed.signature]
            ELSE Spread(originalSignatureMap,
                        [a \in {method.account.address} |-> signed.signature])
    IN  IF ~signatureIsNew /\ ~messageWasModified THEN Resolved(<<message>>)
        ELSE Resolved(<<[content |-> signed.signedMessage, signatures |-> nextSignatureMap]>>)

\* What method m makes of the wallet's results, through the callable it called.
MethodResult(m, method, item, via, results) ==
    CASE m = SignTransactions ->
            SignTransactionsResult(method, CallableResult(via, results))
      [] m = ModifyAndSignTransactions ->
            ModifyAndSignTransactionsResult(item, CallableResult(via, results))
      [] m = SignAndSendTransactions -> SignAndSendTransactionsResult(results)
      [] m = SignMessages -> SignMessagesResult(method, CallableResult(via, results))
      [] m = ModifyAndSignMessages ->
            ModifyAndSignMessagesResult(method, item, CallableResult(via, results))

\* held(input), up to the await
Call(c, input) ==
    /\ op.phase # "awaiting"
    /\ IsCallableOf(held, c)
    /\ op' = [phase |-> "awaiting", name |-> c, callee |-> held, via |-> held,
              at |-> readAt, input |-> input,
              walletCalls |-> <<[feature |-> held.feature, input |-> Forwarded(held, input)]>>,
              walletResults |-> <<>>, outcome |-> NoOutcome]
    /\ UNCHANGED <<kind, accountRef, chainIsRef, chainValue, cache, held, readError, readAt>>
    /\ UNCHANGED <<walletVars, transactionVars>>

SignTransactionCall(input) == Call(UseSignTransaction, input)
SignAndSendTransactionCall(input) == Call(UseSignAndSendTransaction, input)
SignMessageCall(input) == Call(UseSignMessage, input)
SignInCall(input) == Call(UseSignIn, input)

\* The result of the call in flight once the wallet has answered: the
\* callable's own result, or what the signer method makes of it.
Settled(results) ==
    IF op.name \in CallableKinds THEN Resolved(CallableResult(op.callee, results))
    ELSE MethodResult(op.name, op.callee, op.input.items[1], op.via, results)

\* The wallet feature's promise resolves.
LastWalletCall == op.walletCalls[Len(op.walletCalls)]

WalletResolves ==
    /\ op.phase = "awaiting"
    /\ \E results \in WalletResults(LastWalletCall) :
          op' = [op EXCEPT !.phase = "settled", !.walletResults = results,
                          !.outcome = Settled(results)]
    /\ UNCHANGED <<kind, accountRef, chainIsRef, chainValue, cache, held, readError, readAt>>
    /\ UNCHANGED <<walletVars, transactionVars>>

\* The wallet feature's promise rejects: the call rejects with the same error.
WalletRejects ==
    /\ op.phase = "awaiting"
    /\ op' = [op EXCEPT !.phase = "settled", !.outcome = Rejected(WalletError)]
    /\ UNCHANGED <<kind, accountRef, chainIsRef, chainValue, cache, held, readError, readAt>>
    /\ UNCHANGED <<walletVars, transactionVars>>

\* The op record of a method call that settles before any await.
SettledAtOnce(m, input, outcome) ==
    [phase |-> "settled", name |-> m, callee |-> held[m], via |-> NULL, at |-> readAt,
     input |-> input, walletCalls |-> <<>>, walletResults |-> <<>>, outcome |-> outcome]

\* The op record of a method call that awaits the wallet.
Awaiting(m, input, via, call) ==
    [phase |-> "awaiting", name |-> m, callee |-> held[m], via |-> via, at |-> readAt,
     input |-> input, walletCalls |-> <<call>>, walletResults |-> <<>>,
     outcome |-> NoOutcome]

\* held.m(items, config) up to its await, for the methods over useSignTransaction
\* and useSignMessage: the guard, then signTransaction.value!(input) or
\* signMessage.value!(input), read at the time of the call.
MethodCall(m, items, config) ==
    /\ op.phase # "awaiting"
    /\ held # NULL /\ m \in DOMAIN held
    /\ LET input == [items |-> items, config |-> config]
           guard == SingleItemGuard(items, config)
           inner == LeafValue(MethodInner(m))
       IN  IF ~guard.ok
           THEN op' = SettledAtOnce(m, input, Rejected(guard.error)) /\ cache' = cache
           ELSE IF guard.value # NULL
           THEN op' = SettledAtOnce(m, input, Resolved(guard.value)) /\ cache' = cache
           ELSE /\ cache' = AfterRead(MethodInner(m))
                /\ IF ~inner.ok THEN op' = SettledAtOnce(m, input, Rejected(inner.error))
                   ELSE IF inner.value = NULL
                   THEN op' = SettledAtOnce(m, input, Rejected(NotAFunction))
                   ELSE op' = Awaiting(m, input, inner.value,
                                [feature |-> inner.value.feature,
                                 input |-> Forwarded(inner.value,
                                              MethodInput(m, items[1], config))])
    /\ UNCHANGED <<kind, accountRef, chainIsRef, chainValue, held, readError, readAt>>
    /\ UNCHANGED <<walletVars, transactionVars>>

SignTransactionsCall(items, config) == MethodCall(SignTransactions, items, config)
ModifyAndSignTransactionsCall(items, config) ==
    MethodCall(ModifyAndSignTransactions, items, config)
SignMessagesCall(items, config) == MethodCall(SignMessages, items, config)
ModifyAndSignMessagesCall(items, config) == MethodCall(ModifyAndSignMessages, items, config)

\* held.signAndSendTransactions(items, config) up to its await
SignAndSendTransactionsCall(items, config) ==
    /\ op.phase # "awaiting"
    /\ held # NULL /\ SignAndSendTransactions \in DOMAIN held
    /\ LET m == SignAndSendTransactions
           input == [items |-> items, config |-> config]
           guard == SingleItemGuard(items, config)
       IN  IF ~guard.ok THEN op' = SettledAtOnce(m, input, Rejected(guard.error))
           ELSE IF guard.value # NULL THEN op' = SettledAtOnce(m, input, Resolved(guard.value))
           ELSE op' = Awaiting(m, input, NULL,
                        [feature |-> held[m].feature,
                         input |-> InputsWithChainAndAccount(held[m], items[1], config)])
    /\ UNCHANGED <<kind, accountRef, chainIsRef, chainValue, cache, held, readError, readAt>>
    /\ UNCHANGED <<walletVars, transactionVars>>

\* The caller's abortSignal fires while getAbortablePromise awaits the callable.
AbortFires ==
    /\ op.phase = "awaiting"
    /\ op.name \in Methods \ {SignAndSendTransactions}
    /\ Prop(op.input.config, "abortSignal") # UNDEFINED
    /\ op' = [op EXCEPT !.phase = "settled", !.outcome = Rejected(AbortError)]
    /\ UNCHANGED <<kind, accountRef, chainIsRef, chainValue, cache, held, readError, readAt>>
    /\ UNCHANGED <<walletVars, transactionVars>>

Next ==
    \/ \E a \in {NULL} \cup Handles : SetAccount(a)
    \/ \E c \in Chains : SetChain(c)
    \/ ReadValue
    \/ \E input \in TransactionInputs : SignTransactionCall(input)
    \/ \E input \in TransactionInputs : SignAndSendTransactionCall(input)
    \/ \E input \in MessageInputs : SignMessageCall(input)
    \/ \E input \in SignInInputs : SignInCall(input)
    \/ WalletResolves
    \/ WalletRejects

Init == InitOf(CallableKinds)

Spec == Init /\ [][Next]_vars

\* A component that set up one of the eight signer composables.
InitSigners == InitOf(SignerKinds)

NextSigners ==
    \/ \E a \in {NULL} \cup Handles : SetAccount(a)
    \/ \E c \in Chains : SetChain(c)
    \/ ReadValue
    \/ \E items \in BatchesOf(Transactions), config \in Configs :
          SignTransactionsCall(items, config)
    \/ \E items \in BatchesOf(Transactions), config \in Configs :
          ModifyAndSignTransactionsCall(items, config)
    \/ \E items \in BatchesOf(Transactions), config \in Configs :
          SignAndSendTransactionsCall(items, config)
    \/ \E items \in BatchesOf(SignableMessages), config \in Configs :
          SignMessagesCall(items, config)
    \/ \E items \in BatchesOf(SignableMessages), config \in Configs :
          ModifyAndSignMessagesCall(items, config)
    \/ WalletResolves
    \/ WalletRejects
    \/ AbortFires

SpecSigners == InitSigners /\ [][NextSigners]_vars

\* A component that set up a composable that checks the chain.
ChainCheckedKinds ==
    {UseSignTransaction, UseSignAndSendTransaction, UseTransactionPartialSigner,
     UseTransactionSigner}

InitChain == InitOf(ChainCheckedKinds)

NextChain ==
    \/ \E a \in {NULL} \cup Handles : SetAccount(a)
    \/ \E c \in Chains : SetChain(c)
    \/ ReadValue
    \/ \E input \in TransactionInputs : SignTransactionCall(input)
    \/ \E input \in TransactionInputs : SignAndSendTransactionCall(input)
    \/ \E items \in BatchesOf(Transactions), config \in Configs :
          SignTransactionsCall(items, config)
    \/ \E items \in BatchesOf(Transactions), config \in Configs :
          ModifyAndSignTransactionsCall(items, config)
    \/ WalletResolves
    \/ WalletRejects
    \/ AbortFires

SpecChain == InitChain /\ [][NextChain]_vars

---------------------------------------------------------------------------
(* Claims on the callables *)

CalledOn(c) == op.phase # "idle" /\ op.name = c

TheCall == op.walletCalls[1]

\* The chain the composable was set up with supports the account now in the ref.
ChainSupported ==
    accountRef = NULL \/ kind \notin ChainScoped \/ chainValue \in accountRef.chains

\* C1: with a chain the account supports, the value of useSignTransaction,
\* useSignAndSendTransaction, useSignMessage and useSignIn read at any moment,
\* after any assignments to the ref, is null exactly when the ref holds null,
\* and is the composable's callable otherwise.
C1_NullExactlyWhenRefNull ==
    (kind \in CallableKinds /\ ChainSupported) =>
        LET r == Value(kind) IN
        /\ r.ok
        /\ (r.value = NULL) <=> (accountRef = NULL)
        /\ r.value # NULL => IsCallableOf(r.value, kind)

\* The callable was read for an account and called; the ref then became null
\* and null was read.
C1_Witness ==
    /\ kind = UseSignMessage
    /\ CalledOn(UseSignMessage)
    /\ op.at.account # NULL
    /\ accountRef = NULL
    /\ cache[kind] = [valid |-> TRUE, value |-> NULL]
    /\ held = NULL

CallerSlot == Prop(Prop(op.input, "options"), "minContextSlot")

\* C8: the input forwarded by the useSignTransaction / useSignAndSendTransaction
\* callables has an options field iff the caller's options.minContextSlot is
\* neither null nor undefined (0n included); options then holds minContextSlot
\* alone, as the number of the same value.
C8_OptionsIffMinContextSlot ==
    \A c \in {UseSignTransaction, UseSignAndSendTransaction} :
        CalledOn(c) =>
            /\ ("options" \in DOMAIN TheCall.input) <=> (CallerSlot \notin {NULL, UNDEFINED})
            /\ "options" \in DOMAIN TheCall.input =>
                   TheCall.input.options = [minContextSlot |-> Num(CallerSlot.v)]

\* A call with minContextSlot 0n, and one with a second option beside the slot.
C8_Witness ==
    /\ CalledOn(UseSignAndSendTransaction)
    /\ CallerSlot = BigIntOf(0)
    /\ "options" \in DOMAIN TheCall.input

\* C9: a call of the useSignMessage callable invokes the wallet's signMessage
\* exactly once with the caller's input plus account = the registry's standard
\* account, and resolves to the first result without signatureType, its other
\* properties unchanged.
C9_SignMessageDropsSignatureType ==
    CalledOn(UseSignMessage) =>
        /\ Len(op.walletCalls) = 1
        /\ TheCall.feature.feature = SolanaSignMessage
        /\ DOMAIN TheCall.input = DOMAIN op.input \cup {"account"}
        /\ \A k \in DOMAIN op.input : TheCall.input[k] = op.input[k]
        /\ TheCall.input.account = StandardAccountOf(op.at.account)
        /\ (op.phase = "settled" /\ op.walletResults # <<>>) =>
               /\ op.outcome.status = "resolved"
               /\ DOMAIN op.outcome.value = DOMAIN op.walletResults[1] \ {"signatureType"}
               /\ \A k \in DOMAIN op.outcome.value :
                      op.outcome.value[k] = op.walletResults[1][k]

\* A sign-message call resolved on a wallet answer that carries signatureType
\* and a message the wallet changed.
C9_Witness ==
    /\ CalledOn(UseSignMessage)
    /\ op.phase = "settled"
    /\ op.outcome.status = "resolved"
    /\ "signatureType" \in DOMAIN op.walletResults[1]
    /\ op.walletResults[1].signedMessage # op.input.message

\* The caller's sign-in input as an object.
CallerSignIn == IF op.input = UNDEFINED THEN EmptyObject ELSE op.input

\* C10: the useSignIn callable of an account handle forwards address = the
\* account's address, whatever address the caller's input carries; that of a
\* wallet handle forwards the caller's input as it is and adds no address.
C10_SignInAddress ==
    CalledOn(UseSignIn) =>
        /\ Len(op.walletCalls) = 1
        /\ TheCall.feature.feature = SolanaSignIn
        /\ op.at.account \in Accounts =>
               /\ TheCall.input.address = op.at.account.address
               /\ \A k \in DOMAIN CallerSignIn \ {"address"} :
                      TheCall.input[k] = CallerSignIn[k]
        /\ op.at.account \in Wallets => TheCall.input = CallerSignIn

\* An account handle's callable called with another account's address.
C10_Witness ==
    /\ CalledOn(UseSignIn)
    /\ op.at.account \in Accounts
    /\ "address" \in DOMAIN CallerSignIn
    /\ CallerSignIn.address # op.at.account.address

---------------------------------------------------------------------------
(* Claims on the chain check and on the signers *)

\* The feature a chain-checking composable names in its error.
CheckedFeature(c) ==
    IF c = UseSignAndSendTransaction THEN SolanaSignAndSendTransaction
    ELSE SolanaSignTransaction

WalletCalls == {op.walletCalls[i] : i \in DOMAIN op.walletCalls}

\* C2: for useSignTransaction, useSignAndSendTransaction and the two
\* transaction signers over useSignTransaction: when the account is non-null
\* and the chain is not in account.chains, reading the value raises the
\* 'wallet account chain unsupported' error naming the account, the chain and
\* the feature; when the account is null the value is null and nothing is
\* raised; the wallet is never invoked with a chain outside the account's
\* chains, and a call rejected with that error has invoked no wallet feature.
C2_UnsupportedChainRaises ==
    kind \in ChainCheckedKinds =>
        /\ accountRef = NULL => Value(kind) = Ok(NULL)
        /\ (accountRef # NULL /\ chainValue \notin accountRef.chains) =>
               Value(kind) =
                   Throw(ChainUnsupported(accountRef, chainValue, CheckedFeature(kind)))
        /\ \A call \in WalletCalls : call.input.chain \in call.input.account.chains
        /\ (op.outcome.status = "rejected"
              /\ op.outcome.error.code = ChainUnsupportedCode) =>
               op.walletCalls = <<>>

\* A signer read for account A on mainnet; the ref then holds B, which has no
\* mainnet: the next read raised, and the signer still held, when called,
\* rejected with the same error without a wallet call.
C2_Witness ==
    /\ kind = UseTransactionPartialSigner
    /\ accountRef = AccountB /\ chainValue = Mainnet
    /\ readError = ChainUnsupported(AccountB, Mainnet, SolanaSignTransaction)
    /\ held # NULL
    /\ op.phase = "settled"
    /\ op.outcome = Rejected(ChainUnsupported(AccountB, Mainnet, SolanaSignTransaction))
    /\ op.walletCalls = <<>>

\* C3: a wallet feature that takes a chain is invoked only with a chain that
\* is in the chains of the account it is invoked for, on every path.
C3_ChainAlwaysSupported ==
    \A call \in WalletCalls :
        "chain" \in DOMAIN call.input => call.input.chain \in call.input.account.chains

\* C4: a non-null value of a signer composable has the address of the account
\* the ref holds now, after any assignments to the ref.
C4_SignerAddressIsCurrentAccount ==
    kind \in SignerKinds =>
        LET r == Value(kind) IN
        (r.ok /\ r.value # NULL) =>
            /\ accountRef # NULL
            /\ r.value.address = address(accountRef.address)

\* A combined signer was read for account A; the ref now holds B and the
\* value is B's signer.
C4_Witness ==
    /\ kind = UsePartialSigner
    /\ accountRef = AccountB
    /\ held # NULL /\ held.address = "addrA"
    /\ Value(kind).ok /\ Value(kind).value # NULL
    /\ Value(kind).value.address = "addrB"

CalledMethod == op.phase # "idle" /\ op.name \in Methods

\* C5 as stated: every signer method called with more than one item rejects
\* with WALLET_MULTISIGN_UNIMPLEMENTED and invokes no wallet feature.
C5_BatchAlwaysMultisignError ==
    (CalledMethod /\ Len(op.input.items) > 1) =>
        /\ op.phase = "settled"
        /\ op.outcome = Rejected(MultisignUnimplemented)
        /\ op.walletCalls = <<>>

\* C5: every signer method called with more than one item invokes no wallet
\* feature and rejects: with the abort error when the config's abortSignal is
\* already aborted, with WALLET_MULTISIGN_UNIMPLEMENTED otherwise.
C5_BatchRejected ==
    (CalledMethod /\ Len(op.input.items) > 1) =>
        /\ op.phase = "settled"
        /\ op.walletCalls = <<>>
        /\ op.outcome =
               (IF ThrowsIfAborted(op.input.config) THEN Rejected(AbortError)
                ELSE Rejected(MultisignUnimplemented))

\* modifyAndSignMessages called with a batch of two and a live signal.
C5_Witness ==
    /\ CalledMethod /\ op.name = ModifyAndSignMessages
    /\ Len(op.input.items) > 1
    /\ op.input.config = [abortSignal |-> LiveSignal]
    /\ op.outcome = Rejected(MultisignUnimplemented)

\* C6: every signer method called with an empty batch and no aborted signal
\* resolves to the empty list and invokes no wallet feature.
C6_EmptyBatchResolvesEmpty ==
    (CalledMethod /\ Len(op.input.items) = 0 /\ ~ThrowsIfAborted(op.input.config)) =>
        /\ op.phase = "settled"
        /\ op.outcome = Resolved(<<>>)
        /\ op.walletCalls = <<>>

\* signAndSendTransactions of a signer held for an account the ref no longer
\* holds, called with no transactions.
C6_Witness ==
    /\ CalledMethod /\ op.name = SignAndSendTransactions
    /\ op.input.items = <<>>
    /\ accountRef = NULL
    /\ op.outcome = Resolved(<<>>)

---------------------------------------------------------------------------
(* useSolanaWallets: the wallets of useWallets() that support a Solana chain *)

UseSolanaWallets == "useSolanaWallets"

MaxWallets == 3

\* SOLANA_CHAINS of @solana/wallet-standard-chains
SolanaChains ==
    {Str("solana:mainnet"), Str("solana:devnet"), Str("solana:testnet"),
     Str("solana:localnet")}

isSolanaChain(chain) == chain \in SolanaChains

Ethereum == Str("eip155:1")

\* UI wallets: one on a Solana chain, one on Ethereum, one on both, one whose
\* chains list is empty and one without a chains list.
WalletPool ==
    {[name |-> "Solana Wallet", chains |-> {Devnet}],
     [name |-> "Ethereum Wallet", chains |-> {Ethereum}],
     [name |-> "Multi-chain Wallet", chains |-> {Mainnet, Ethereum}],
     [name |-> "Empty Wallet", chains |-> {}],
     [name |-> "Bare Wallet"]}

WalletLists == UNION {[1..n -> WalletPool] : n \in 0..MaxWallets}

\* A filter that keeps the wallets all of whose chains are Solana chains.
IsSolanaWalletEvery(wallet) ==
    "chains" \in DOMAIN wallet /\ \A chain \in wallet.chains : isSolanaChain(chain)

\* wallet.chains?.some((chain) => isSolanaChain(chain))
IsSolanaWallet(wallet) ==
    "chains" \in DOMAIN wallet /\ \E chain \in wallet.chains : isSolanaChain(chain)

\* wallets.value.filter(...)
FilterWallets(list) == SelectSeq(list, IsSolanaWallet)

\* solanaWallets.value
SolanaWalletsValue ==
    IF solanaWallets.valid THEN solanaWallets.value ELSE FilterWallets(walletsRef)

InitWallets ==
    /\ kind = UseSolanaWallets
    /\ accountRef = NULL
    /\ chainIsRef = FALSE
    /\ chainValue = Devnet
    /\ cache = [c \in Computeds |-> Dirty]
    /\ held = NULL
    /\ readError = NoError
    /\ readAt = NULL
    /\ op = Idle
    /\ walletsRef = <<>>
    /\ solanaWallets = Dirty
    /\ signing = FALSE
    /\ calls = NoCalls

\* wallets.value = list, by the wallet registry
SetWallets(list) ==
    /\ list # walletsRef
    /\ walletsRef' = list
    /\ solanaWallets' = Dirty
    /\ UNCHANGED <<kind, accountRef, chainIsRef, chainValue, cache, held, readError,
                   readAt, op, transactionVars>>

\* useSolanaWallets().wallets.value
ReadWallets ==
    /\ ~solanaWallets.valid
    /\ solanaWallets' = [valid |-> TRUE, value |-> SolanaWalletsValue]
    /\ UNCHANGED <<kind, accountRef, chainIsRef, chainValue, cache, held, readError,
                   readAt, op, walletsRef, transactionVars>>

NextWallets ==
    \/ \E list \in WalletLists : SetWallets(list)
    \/ ReadWallets

SpecWallets == InitWallets /\ [][NextWallets]_vars

\* A wallet that lists at least one of the Solana chains.
HasSolanaChain(wallet) ==
    "chains" \in DOMAIN wallet /\ wallet.chains \cap SolanaChains # {}

\* The positions of the wallet list that hold such a wallet, and the k-th of them.
SolanaPositions == {i \in DOMAIN walletsRef : HasSolanaChain(walletsRef[i])}
KthSolanaPosition(k) ==
    CHOOSE i \in SolanaPositions : Cardinality({j \in SolanaPositions : j <= i}) = k

\* C11: after any replacements of the wallet list, useSolanaWallets().wallets
\* is the wallets of the list that have a Solana chain among their chains, in
\* the order of the list, and no other wallet.
C11_SolanaWalletsInOrder ==
    kind = UseSolanaWallets =>
        LET wallets == SolanaWalletsValue IN
        /\ Len(wallets) = Cardinality(SolanaPositions)
        /\ \A k \in 1..Len(wallets) : wallets[k] = walletsRef[KthSolanaPosition(k)]

\* The list was replaced by one that holds a multi-chain wallet after an
\* Ethereum wallet and before a wallet without chains, and the value was read.
C11_Witness ==
    /\ kind = UseSolanaWallets
    /\ Len(walletsRef) = 3
    /\ walletsRef[1].name = "Ethereum Wallet"
    /\ walletsRef[2].name = "Multi-chain Wallet"
    /\ walletsRef[3].name = "Bare Wallet"
    /\ solanaWallets.valid
    /\ Len(solanaWallets.value) = 1

---------------------------------------------------------------------------
(* useSolanaTransaction: signTransaction over base64 wire transactions and   *)
(* the signing flag                                                           *)

UseSolanaTransaction == "useSolanaTransaction"

MaxBytes == 3

\* A Uint8Array of the given bytes.
Uint8Array(bytes) == [js |-> "Uint8Array", v |-> bytes]

ByteValues == {1, 255}
ByteSeqs == UNION {[1..n -> ByteValues] : n \in 0..MaxBytes}

\* A base64 string is the sequence of its characters: the 6-bit value of a
\* character of the alphabet, or Pad for '='.
Pad == 64

RECURSIVE BtoaNoPadding(_)
\* An encoder that leaves the '=' padding out.
BtoaNoPadding(bytes) ==
    IF Len(bytes) = 0 THEN <<>>
    ELSE IF Len(bytes) = 1
    THEN <<bytes[1] \div 4, (bytes[1] % 4) * 16>>
    ELSE IF Len(bytes) = 2
    THEN <<bytes[1] \div 4, (bytes[1] % 4) * 16 + bytes[2] \div 16, (bytes[2] % 16) * 4>>
    ELSE <<bytes[1] \div 4, (bytes[1] % 4) * 16 + bytes[2] \div 16,
           (bytes[2] % 16) * 4 + bytes[3] \div 64, bytes[3] % 64>>
         \o BtoaNoPadding(SubSeq(bytes, 4, Len(bytes)))

RECURSIVE Btoa(_)
\* btoa(String.fromCharCode(...bytes)): three bytes give four characters, a
\* last group of one or two bytes is padded with '='.
Btoa(bytes) ==
    IF Len(bytes) = 0 THEN <<>>
    ELSE IF Len(bytes) = 1
    THEN <<bytes[1] \div 4, (bytes[1] % 4) * 16, Pad, Pad>>
    ELSE IF Len(bytes) = 2
    THEN <<bytes[1] \div 4, (bytes[1] % 4) * 16 + bytes[2] \div 16,
           (bytes[2] % 16) * 4, Pad>>
    ELSE <<bytes[1] \div 4, (bytes[1] % 4) * 16 + bytes[2] \div 16,
           (bytes[2] % 16) * 4 + bytes[3] \div 64, bytes[3] % 64>>
         \o Btoa(SubSeq(bytes, 4, Len(bytes)))

RECURSIVE DecodeSextets(_)
\* The bytes of a string of alphabet characters; the bits left over in a last
\* group of two or three characters are dropped.
DecodeSextets(s) ==
    IF Len(s) = 0 THEN <<>>
    ELSE IF Len(s) = 2 THEN <<s[1] * 4 + s[2] \div 16>>
    ELSE IF Len(s) = 3
    THEN <<s[1] * 4 + s[2] \div 16, (s[2] % 16) * 16 + s[3] \div 4>>
    ELSE <<s[1] * 4 + s[2] \div 16, (s[2] % 16) * 16 + s[3] \div 4,
           (s[3] % 4) * 64 + s[4]>>
         \o DecodeSextets(SubSeq(s, 5, Len(s)))

InvalidCharacterError == [code |-> "InvalidCharacterError"]

\* Uint8Array.from(atob(s), (c) => c.charCodeAt(0)): atob takes one or two
\* '=' off the end of a string whose length is a multiple of four, then
\* throws when a '=' is left or the length is 1 modulo 4.
Atob(s) ==
    LET n == Len(s)
        stripped ==
            IF n > 0 /\ n % 4 = 0 /\ s[n] = Pad
            THEN (IF s[n - 1] = Pad THEN SubSeq(s, 1, n - 2) ELSE SubSeq(s, 1, n - 1))
            ELSE s
    IN  IF Len(stripped) % 4 = 1 \/ \E i \in DOMAIN stripped : stripped[i] = Pad
        THEN Throw(InvalidCharacterError)
        ELSE Ok(DecodeSextets(stripped))

\* Base64 strings a caller passes: the encoding of every byte sequence, one
\* without its padding, one with bits set in the dropped positions and one
\* that is not base64.
Unpadded == <<0, 16>>
LooseBits == <<0, 17, Pad, Pad>>
Malformed == <<16>>
Base64Arguments == {Btoa(b) : b \in ByteSeqs} \cup {Unpadded, LooseBits, Malformed}

\* The options a caller passes: none, empty, a chain, the empty string as chain.
SignOptions == {UNDEFINED, EmptyObject, [chain |-> Mainnet], [chain |-> Str("")]}

\* The truthiness of a JavaScript value.
IsTruthy(x) == NotNullish(x) /\ x # Str("") /\ x # BigIntOf(0) /\ x # Num(0)

\* options?.chain ?? 'solana:devnet'
ChainOrDefaultNullish(options) ==
    LET chain == Prop(options, "chain") IN
    IF NotNullish(chain) THEN chain ELSE Devnet

\* options?.chain || 'solana:devnet'
ChainOrDefault(options) ==
    LET chain == Prop(options, "chain") IN
    IF IsTruthy(chain) THEN chain ELSE Devnet

NoAccountConnected == [code |-> "No wallet account connected"]
NoSignedTransaction == [code |-> "No signed transaction returned"]
TypeError == [code |-> "TypeError"]

\* A check that lets every account value through.
ConnectedAlways(account) == TRUE

\* !account.value is false
Connected(account) == account # NULL

\* The body of the try up to the await: the feature, the standard account,
\* the wire bytes and the chain.  Ok(the wallet call to make) or Throw(error).
\* getWalletAccountFeature throws a TypeError on null.
PrepareSign(account, transaction, options) ==
    IF account = NULL THEN Throw(TypeError)
    ELSE LET wireBytes == Atob(transaction) IN
         IF ~wireBytes.ok THEN wireBytes
         ELSE Ok([feature |-> FeatureOf(account, SolanaSignTransaction),
                  input |-> [account |-> StandardAccountOf(account),
                             transaction |-> Uint8Array(wireBytes.value),
                             chain |-> ChainOrDefault(options)]])

\* What the wallet can answer to a signTransaction call: the bytes as given,
\* changed bytes, an output without signedTransaction; one output, none or two.
SignedOutputs(call) ==
    {[signedTransaction |-> call.input.transaction],
     [signedTransaction |-> Uint8Array(call.input.transaction.v \o <<255>>)],
     EmptyObject}

SignedResults(call) ==
    {<<>>} \cup {<<o>> : o \in SignedOutputs(call)}
    \cup {<<[signedTransaction |-> call.input.transaction], EmptyObject>>,
          <<EmptyObject, [signedTransaction |-> call.input.transaction]>>}

\* The first element's signedTransaction of any element, not the first's.
SignedBytesOfAny(signedTransactions) ==
    IF \E i \in DOMAIN signedTransactions :
          "signedTransaction" \in DOMAIN signedTransactions[i]
    THEN signedTransactions[
             CHOOSE i \in DOMAIN signedTransactions :
                 "signedTransaction" \in DOMAIN signedTransactions[i]].signedTransaction
    ELSE UNDEFINED

\* signedTransactions[0]?.signedTransaction
SignedBytesOf(signedTransactions) ==
    IF Len(signedTransactions) = 0 THEN UNDEFINED
    ELSE Prop(signedTransactions[1], "signedTransaction")

\* The rest of the try after the await.
SignOutcome(signedTransactions) ==
    LET signedBytes == SignedBytesOf(signedTransactions) IN
    IF ~NotNullish(signedBytes) THEN Rejected(NoSignedTransaction)
    ELSE Resolved(Btoa(signedBytes.v))

\* A flag that is reset after a success only.
SigningAfterSuccessOnly(outcome) ==
    IF outcome.status = "resolved" THEN FALSE ELSE signing

\* finally { signing.value = false }
SigningAfter(outcome) == FALSE

\* How the wallet's promise settled for a call: not (yet), with a result
\* list, or with an error.
NoAnswer == [settled |-> "none"]
Answered(results) == [settled |-> "resolved", results |-> results]
Refused(error) == [settled |-> "rejected", error |-> error]

UserRejectedError == [code |-> "user rejected the request"]
WalletErrors == {WalletError, UserRejectedError}

\* A call that threw before it reached the wallet.
ThrownCall(account, transaction, options, error) ==
    [phase |-> "settled", account |-> account, transaction |-> transaction,
     options |-> options, walletCalls |-> <<>>, answer |-> NoAnswer,
     outcome |-> Rejected(error)]

\* signTransaction(transaction, options) up to its await, or to its end when
\* it throws before.
SolanaSignTransactionCall(id, transaction, options) ==
    /\ calls[id].phase # "awaiting"
    /\ LET account == accountRef IN
        IF ~Connected(account)
        THEN /\ calls' = [calls EXCEPT ![id] =
                    ThrownCall(account, transaction, options, NoAccountConnected)]
             /\ signing' = signing
        ELSE LET prepared == PrepareSign(account, transaction, options) IN
             IF ~prepared.ok
             THEN /\ calls' = [calls EXCEPT ![id] =
                         ThrownCall(account, transaction, options, prepared.error)]
                  /\ signing' = SigningAfter(Rejected(prepared.error))
             ELSE /\ calls' = [calls EXCEPT ![id] =
                         [phase |-> "awaiting", account |-> account,
                          transaction |-> transaction, options |-> options,
                          walletCalls |-> <<prepared.value>>, answer |-> NoAnswer,
                          outcome |-> NoOutcome]]
                  /\ signing' = TRUE
    /\ UNCHANGED <<kind, accountRef, chainIsRef, chainValue, cache, held, readError,
                   readAt, op, walletVars>>

\* The wallet's signTransaction resolves for the call of caller id.
SolanaWalletResolves(id) ==
    /\ calls[id].phase = "awaiting"
    /\ \E results \in SignedResults(calls[id].walletCalls[1]) :
          /\ calls' = [calls EXCEPT ![id].phase = "settled",
                                    ![id].answer = Answered(results),
                                    ![id].outcome = SignOutcome(results)]
          /\ signing' = SigningAfter(SignOutcome(results))
    /\ UNCHANGED <<kind, accountRef, chainIsRef, chainValue, cache, held, readError,
                   readAt, op, walletVars>>

\* The wallet's signTransaction rejects for the call of caller id.
SolanaWalletRejects(id) ==
    /\ calls[id].phase = "awaiting"
    /\ \E error \in WalletErrors :
          /\ calls' = [calls EXCEPT ![id].phase = "settled",
                                    ![id].answer = Refused(error),
                                    ![id].outcome = Rejected(error)]
          /\ signing' = SigningAfter(Rejected(error))
    /\ UNCHANGED <<kind, accountRef, chainIsRef, chainValue, cache, held, readError,
                   readAt, op, walletVars>>

InitTransaction ==
    /\ kind = UseSolanaTransaction
    /\ accountRef \in {NULL} \cup Accounts
    /\ chainIsRef = FALSE
    /\ chainValue = Devnet
    /\ cache = [c \in Computeds |-> Dirty]
    /\ held = NULL
    /\ readError = NoError
    /\ readAt = NULL
    /\ op = Idle
    /\ walletsRef = <<>>
    /\ solanaWallets = Dirty
    /\ signing = FALSE
    /\ calls = NoCalls

\* A component that awaits each signTransaction before it calls again.
NextTransaction ==
    \/ \E a \in {NULL} \cup Accounts : SetAccount(a)
    \/ \E transaction \in Base64Arguments, options \in SignOptions :
          SolanaSignTransactionCall("first", transaction, options)
    \/ SolanaWalletResolves("first")
    \/ SolanaWalletRejects("first")

SpecTransaction == InitTransaction /\ [][NextTransaction]_vars

\* Two callers that do not wait for each other, each signing one transaction.
OverlapArguments == {Btoa(<<1>>)}

NextOverlap ==
    \/ \E a \in {NULL} \cup Accounts : SetAccount(a)
    \/ \E id \in CallIds, transaction \in OverlapArguments :
          SolanaSignTransactionCall(id, transaction, UNDEFINED)
    \/ \E id \in CallIds : SolanaWalletResolves(id)
    \/ \E id \in CallIds : SolanaWalletRejects(id)

SpecOverlap == InitTransaction /\ [][NextOverlap]_vars

---------------------------------------------------------------------------
(* Claims about useSolanaTransaction *)

InFlight(id) == calls[id].phase = "awaiting"
HasSettled(id) == calls[id].phase = "settled"

\* C12: the signing flag is true exactly when some signTransaction call has
\* started signing and has not settled; with two overlapping calls it stays
\* true until the last of them settles.
C12_SigningWhileAnyInFlight ==
    signing = (\E id \in CallIds : InFlight(id))

\* C13: a signTransaction call made while no account is connected rejects
\* with 'No wallet account connected', makes no wallet call and leaves the
\* signing flag as it was.
C13_NoAccountRejectsFlagUnchanged ==
    [][\A id \in CallIds :
          (/\ calls'[id] # calls[id]
           /\ ~InFlight(id)
           /\ accountRef = NULL)
          => /\ calls'[id].phase = "settled"
             /\ calls'[id].outcome = Rejected(NoAccountConnected)
             /\ calls'[id].walletCalls = <<>>
             /\ signing' = signing]_vars

\* A call without account has been rejected while another call is being
\* signed, and the flag is still true.
C13_Witness ==
    /\ HasSettled("second")
    /\ calls["second"].account = NULL
    /\ calls["second"].outcome = Rejected(NoAccountConnected)
    /\ InFlight("first")
    /\ signing

\* The first element of the list is missing or has no signedTransaction.
NoFirstSignedTransaction(results) ==
    \/ Len(results) = 0
    \/ "signedTransaction" \notin DOMAIN results[1]

\* C14: when the wallet resolves with a list whose first element is missing
\* or has no signedTransaction, the call rejects with 'No signed transaction
\* returned' and the signing flag is false when the call settles.
C14_NoSignedTransactionRejects ==
    [][\A id \in CallIds :
          (/\ InFlight(id)
           /\ calls'[id].phase = "settled"
           /\ calls'[id].answer.settled = "resolved"
           /\ NoFirstSignedTransaction(calls'[id].answer.results))
          => /\ calls'[id].outcome = Rejected(NoSignedTransaction)
             /\ ~signing']_vars

\* The wallet answered with a list whose second element only is signed.
C14_Witness ==
    /\ HasSettled("first")
    /\ calls["first"].answer.settled = "resolved"
    /\ Len(calls["first"].answer.results) = 2
    /\ NoFirstSignedTransaction(calls["first"].answer.results)
    /\ calls["first"].outcome = Rejected(NoSignedTransaction)
    /\ ~signing

Started(id) == calls[id].phase \in {"awaiting", "settled"}

\* The wallet call the claim describes for a call, the chain being
\* options.chain whenever the options carry one.
WalletCallAsGiven(call) ==
    /\ Len(call.walletCalls) = 1
    /\ call.walletCalls[1].feature = FeatureOf(call.account, SolanaSignTransaction)
    /\ call.walletCalls[1].input.account = StandardAccountOf(call.account)
    /\ \A b \in ByteSeqs :
          call.transaction = Btoa(b) => call.walletCalls[1].input.transaction = Uint8Array(b)
    /\ call.walletCalls[1].input.chain =
          IF "chain" \in DOMAIN call.options THEN call.options.chain ELSE Devnet

\* C15 as stated: every signTransaction call invokes the wallet once with
\* the standard account, the decoded bytes, and options.chain when given,
\* otherwise 'solana:devnet'.
C15_WalletCallChainWhenGiven ==
    \A id \in CallIds : Started(id) => WalletCallAsGiven(calls[id])

\* C15 amended: a call made with an account connected and an argument atob
\* accepts invokes the wallet once with the standard account, the decoded
\* bytes, and options.chain when it is a non-empty string, otherwise
\* 'solana:devnet'.
C15_WalletCallChainWhenNonEmpty ==
    \A id \in CallIds :
        (Started(id) /\ calls[id].account # NULL /\ Atob(calls[id].transaction).ok)
        => LET call == calls[id] IN
           /\ Len(call.walletCalls) = 1
           /\ call.walletCalls[1].feature = FeatureOf(call.account, SolanaSignTransaction)
           /\ call.walletCalls[1].input.account = StandardAccountOf(call.account)
           /\ call.walletCalls[1].input.transaction =
                  Uint8Array(Atob(call.transaction).value)
           /\ \A b \in ByteSeqs :
                 call.transaction = Btoa(b)
                 => call.walletCalls[1].input.transaction = Uint8Array(b)
           /\ call.walletCalls[1].input.chain =
                 IF "chain" \in DOMAIN call.options /\ call.options.chain # Str("")
                 THEN call.options.chain ELSE Devnet

\* A two-byte transaction is being signed for the chain the options name.
C15_Witness ==
    /\ InFlight("first")
    /\ calls["first"].transaction = Btoa(<<1, 255>>)
    /\ calls["first"].options = [chain |-> Mainnet]
    /\ calls["first"].walletCalls[1].input.transaction = Uint8Array(<<1, 255>>)
    /\ calls["first"].walletCalls[1].input.chain = Mainnet

\* The padded base64 strings without loose bits: the length is a multiple of
\* four, '=' stands in the last two places only, and the bits of the last
\* character that no byte takes are zero.
IsCanonicalBase64(s) ==
    LET n == Len(s) IN
    /\ n % 4 = 0
    /\ \A i \in 1..n : s[i] = Pad => i >= n - 1
    /\ n > 0 /\ s[n - 1] = Pad => s[n] = Pad /\ s[n - 2] % 16 = 0
    /\ n > 0 /\ s[n] = Pad /\ s[n - 1] # Pad => s[n - 1] % 4 = 0

\* C16: a call whose wallet returns signed bytes resolves to their base64
\* encoding, and to the argument itself when the argument is valid base64
\* and the wallet returns the bytes it was given.
C16_ResolvesBase64OfSignedBytes ==
    \A id \in CallIds :
        (/\ HasSettled(id)
         /\ calls[id].answer.settled = "resolved"
         /\ ~NoFirstSignedTransaction(calls[id].answer.results))
        => LET call == calls[id]
               signedBytes == call.answer.results[1].signedTransaction
           IN  /\ call.outcome.status = "resolved"
               /\ IsCanonicalBase64(call.outcome.value)
               /\ Atob(call.outcome.value) = Ok(signedBytes.v)
               /\ (/\ IsCanonicalBase64(call.transaction)
                   /\ signedBytes = call.walletCalls[1].input.transaction)
                  => call.outcome.value = call.transaction

\* A two-byte transaction came back unchanged and the call resolved to its
\* argument.
C16_Witness ==
    /\ HasSettled("first")
    /\ calls["first"].transaction = Btoa(<<255, 1>>)
    /\ calls["first"].answer.settled = "resolved"
    /\ ~NoFirstSignedTransaction(calls["first"].answer.results)
    /\ calls["first"].answer.results[1].signedTransaction = Uint8Array(<<255, 1>>)
    /\ calls["first"].outcome = Resolved(calls["first"].transaction)

\* C20: when the wallet's signTransaction rejects, the call rejects with the
\* same error, and the signing flag is false once no call is in flight.
C20_WalletErrorPassedFlagReset ==
    \A id \in CallIds :
        (HasSettled(id) /\ calls[id].answer.settled = "rejected")
        => /\ calls[id].outcome = Rejected(calls[id].answer.error)
           /\ (\A other \in CallIds : ~InFlight(other)) => ~signing

\* Both calls were refused by the wallet, with different errors.
C20_Witness ==
    /\ HasSettled("first") /\ HasSettled("second")
    /\ calls["first"].answer = Refused(WalletError)
    /\ calls["second"].answer = Refused(UserRejectedError)
    /\ calls["first"].outcome = Rejected(WalletError)
    /\ calls["second"].outcome = Rejected(UserRejectedError)
    /\ ~signing

---------------------------------------------------------------------------
(* Claims about the combined signers and about what the signer methods forward *)

\* The method a signer composable's value carries.
MethodOf(c) ==
    CASE c = UseTransactionPartialSigner -> SignTransactions
      [] c = UseTransactionSigner -> ModifyAndSignTransactions
      [] c = UseTransactionSendingSigner -> SignAndSendTransactions
      [] c = UseMessagePartialSigner -> SignMessages
      [] c = UseMessageModifyingSigner -> ModifyAndSignMessages

\* v is one object with the transaction method and the message method of the
\* two signers of combined composable c and the transaction signer's address.
ExposesBoth(c, v) ==
    LET txSigner == SignerValue(TransactionChild(c)).value
        msgSigner == SignerValue(MessageChild(c)).value
        txMethod == MethodOf(TransactionChild(c))
        msgMethod == MethodOf(MessageChild(c))
    IN  /\ v # NULL
        /\ DOMAIN v = {"address", txMethod, msgMethod}
        /\ v[txMethod] = txSigner[txMethod]
        /\ v[msgMethod] = msgSigner[msgMethod]
        /\ v.address = txSigner.address

\* C17 as stated: the value of a combined signer composable is null exactly
\* when the account ref holds null, and otherwise one object with both
\* methods and the transaction signer's address.
C17_CombinedNullOrBoth ==
    kind \in CombinedComputeds
    => LET r == Value(kind) IN
       /\ r.ok
       /\ r.value = NULL <=> accountRef = NULL
       /\ r.value # NULL => ExposesBoth(kind, r.value)

\* C17 amended: the value is null exactly when the account ref holds null;
\* with an account it is one object with both methods and the transaction
\* signer's address, except that reading useWalletAccountPartialSigner or
\* useWalletAccountModifyingSigner with a chain the account does not
\* support raises the chain-unsupported error.
C17_CombinedNullBothOrRaises ==
    kind \in CombinedComputeds
    => LET r == Value(kind) IN
       IF accountRef = NULL THEN r = Ok(NULL)
       ELSE IF kind = UseSigner \/ ChainRefValue \in accountRef.chains
       THEN r.ok /\ ExposesBoth(kind, r.value)
       ELSE ~r.ok /\ r.error.code = ChainUnsupportedCode

\* A combined partial signer was read for the connected account and is held.
C17_Witness ==
    /\ kind = UsePartialSigner
    /\ accountRef = AccountB
    /\ readAt # NULL /\ readAt.account = accountRef
    /\ held # NULL /\ held = Value(kind).value
    /\ DOMAIN held = {"address", SignTransactions, SignMessages}
    /\ held.address = "addrB"

\* C18: signTransactions or modifyAndSignTransactions called with
\* config.minContextSlot = s hands the wallet's signTransaction
\* options.minContextSlot = Number(s).
C18_MinContextSlotReachesWallet ==
    (/\ CalledMethod
     /\ op.name \in {SignTransactions, ModifyAndSignTransactions}
     /\ Len(op.walletCalls) > 0
     /\ NotNullish(Prop(op.input.config, "minContextSlot")))
    => Prop(TheCall.input, "options")
         = [minContextSlot |-> NumberOf(op.input.config.minContextSlot)]

\* C19: a sending signer set up with the chain as a ref forwards, in every
\* signAndSendTransactions call, the string the ref holds when the call is made.
C19_ChainRefStringForwarded ==
    [][(/\ op' # op
        /\ op'.phase = "awaiting"
        /\ op'.name = SignAndSendTransactions
        /\ chainIsRef)
       => op'.walletCalls[1].input.chain = chainValue]_vars

---------------------------------------------------------------------------
(* Claims about what the signer methods return *)

\* A method call that the wallet has answered.
WalletAnswered(m) ==
    /\ op.phase = "settled"
    /\ op.name = m
    /\ Len(op.walletResults) > 0

\* C21: modifyAndSignMessages on one message: with the content returned
\* unchanged the output's signature map is the input's map with this
\* account's entry set to the new signature and every other entry kept; with
\* the content modified the output's content is the wallet's signed message
\* and its map holds this account's entry alone.
C21_ModifyAndSignMessagesMap ==
    WalletAnswered(ModifyAndSignMessages)
    => LET message == op.input.items[1]
           signed == op.walletResults[1]
           own == op.callee.account.address
       IN  /\ op.outcome.status = "resolved"
           /\ Len(op.outcome.value) = 1
           /\ LET out == op.outcome.value[1] IN
               IF signed.signedMessage = message.content
               THEN /\ out.content = message.content
                    /\ DOMAIN out.signatures = DOMAIN message.signatures \cup {own}
                    /\ out.signatures[own] = signed.signature
                    /\ \A a \in DOMAIN message.signatures \ {own} :
                          out.signatures[a] = message.signatures[a]
               ELSE /\ out.content = signed.signedMessage
                    /\ DOMAIN out.signatures = {own}
                    /\ out.signatures[own] = signed.signature

\* Account A's signer signed, unchanged, a message that carried B's signature.
C21_Witness ==
    /\ WalletAnswered(ModifyAndSignMessages)
    /\ op.callee.account = AccountA
    /\ DOMAIN op.input.items[1].signatures = {"addrB"}
    /\ op.walletResults[1].signedMessage = op.input.items[1].content
    /\ op.outcome.status = "resolved"
    /\ DOMAIN op.outcome.value[1].signatures = {"addrA", "addrB"}

\* C22: signTransactions on one transaction resolves to a list of one
\* signature dictionary whose only key is the signer's address and whose
\* value is the signature under that address in the decoded signed
\* transaction; when there is none, the call rejects with 'Signature not found'.
C22_SignTransactionsDictionary ==
    WalletAnswered(SignTransactions)
    => LET decodedSignedTransaction == Decode(op.walletResults[1].signedTransaction)
           own == op.callee.account.address
           signed == /\ own \in DOMAIN decodedSignedTransaction.signatures
                     /\ decodedSignedTransaction.signatures[own] # NULL
       IN  IF signed
           THEN /\ op.outcome.status = "resolved"
                /\ Len(op.outcome.value) = 1
                /\ DOMAIN op.outcome.value[1] = {own}
                /\ op.outcome.value[1][own] = decodedSignedTransaction.signatures[own]
           ELSE /\ op.outcome.status = "rejected"
                /\ op.outcome.error = SignatureNotFound(own)

\* A transaction with two signers came back signed by the signer's account,
\* and the dictionary holds that signature alone.
C22_Witness ==
    /\ WalletAnswered(SignTransactions)
    /\ op.input.items[1] = TxForBoth
    /\ op.callee.account = AccountA
    /\ DOMAIN Decode(op.walletResults[1].signedTransaction).signatures = Addresses
    /\ op.outcome = Resolved(<<[a \in {"addrA"} |-> Sig("addrA", <<2>>)]>>)

\* C23: the callable of useSignIn resolves to the wallet's first result
\* without signatureType and with account replaced by the UI wallet account
\* the registry gives for the handle's wallet and the result's standard
\* account; signedMessage and signature are those of the result.
C23_SignInResultAccount ==
    WalletAnswered(UseSignIn)
    => LET result == op.walletResults[1] IN
       /\ op.outcome.status = "resolved"
       /\ DOMAIN op.outcome.value = DOMAIN result \ {"signatureType"}
       /\ op.outcome.value.signedMessage = result.signedMessage
       /\ op.outcome.value.signature = result.signature
       /\ op.outcome.value.account
            = UiAccountFor(WalletForHandle(op.callee.handle), result.account)
       /\ op.outcome.value.account # result.account

\* A sign-in through a wallet handle resolved with the UI account of the
\* account the wallet signed in with.
C23_Witness ==
    /\ WalletAnswered(UseSignIn)
    /\ op.callee.handle = WalletW
    /\ op.walletResults[1].account = StandardAccountOf(AccountB)
    /\ op.outcome.status = "resolved"
    /\ op.outcome.value.account = AccountB

\* C24: whatever assignments to the account ref come between the read of a
\* signer object and a call of its signMessages or signTransactions, a
\* returned signature dictionary pairs an address only with a signature made
\* by the account of that address, and the call does not fail because the
\* ref holds null by then.
C24_HeldSignerSignsAsItsAccount ==
    (/\ CalledMethod
     /\ op.name \in {SignMessages, SignTransactions}
     /\ op.phase = "settled")
    => /\ op.outcome # Rejected(NotAFunction)
       /\ op.outcome.status = "resolved"
          => \A i \in DOMAIN op.outcome.value :
                \A X \in DOMAIN op.outcome.value[i] : op.outcome.value[i][X].by = X

=============================================================================
